---------------------------- MODULE Spec2Model ----------------------------
(***************************************************************************)
(* Model of droghio/Sia: the host directory (modules/hostdb/hostdb.go) and *)
(* the host's RPC front-end (modules/host/network.go).                     *)
(*                                                                         *)
(* The weighted tree (hostNode: createNode, insert, remove, entryAtWeight) *)
(* and the thread group (h.tg) are code of the repository that is not part *)
(* of the two files; they are modelled from the specification's sections   *)
(* 4.1 and 5/9.                                                            *)
(***************************************************************************)
EXTENDS Integers, Sequences, FiniteSets, TLC

(***************************************************************************)
(* Bounds of the model.                                                    *)
(***************************************************************************)
\* number of hostNode allocations (createNode calls) a run may perform
MaxNodes == 3
\* total number of blocks (rewound plus applied) handed to one Update call
MaxBlocks == 2
\* number of inbound connections the listener may accept
MaxConns == 1

(***************************************************************************)
(* Part I: the host directory, hostdb.go                                   *)
(***************************************************************************)
VARIABLES
    heap,           \* the hostNode objects allocated so far, by reference 1..Len(heap)
    hostTree,       \* HostDB.hostTree: reference to a node, Nil when nil
    activeHosts,    \* HostDB.activeHosts: address -> node reference (Nil: no key)
    inactiveHosts,  \* HostDB.inactiveHosts: its key set
    recentBlock,    \* HostDB.recentBlock
    mu,             \* HostDB.mu: "none" when free, else the call holding it
    upd,            \* the Update call in progress: position, remaining blocks
    res,            \* the last call that returned (or panicked) and its result
    hist            \* history of Update round trips: state before, blocks applied

dbvars == <<heap, hostTree, activeHosts, inactiveHosts, recentBlock, mu, upd, res, hist>>

(***************************************************************************)
(* Part II: the host's RPC front-end, network.go (state)                   *)
(***************************************************************************)
VARIABLES
    tg,             \* h.tg: stopChan closed?, registered tasks, permanent tasks
    stop,           \* the h.tg.Stop() call: "idle", "waiting" or "returned"
    listenerOpen,   \* h.listener has not been closed
    lpc,            \* threadedListen: position
    ipc,            \* the goroutine of initNetworking, lines 73-85: position
    hpc,            \* threadedUpdateHostname: position
    cpc,            \* threadedHandleConn, per connection: position
    kpc,            \* the closer goroutine of lines 99-105, per connection: position
    id,             \* per connection: the specifier read from it
    connCloseChan,  \* per connection: connCloseChan has been closed
    closes,         \* per connection: number of conn.Close() calls
    counters,       \* the atomic call counters of the host
    handled         \* per connection: what its handler has done so far

hostvars == <<tg, stop, listenerOpen, lpc, ipc, hpc, cpc, kpc, id, connCloseChan,
              closes, counters, handled>>

vars == <<dbvars, hostvars>>

Nil == 0

\* network.Address values announced by hosts
Addr == {"A", "B", "C"}

\* The own weight of an entry: a scalar function of the entry, zero allowed.
entryWeight(a) == CASE a = "A" -> 0 [] a = "B" -> 1 [] a = "C" -> 2

\* A block whose announcements cannot be extracted (findHostAnnouncements fails)
BadBlock == [ok |-> FALSE, anns |-> <<>>]

\* A block and the addresses findHostAnnouncements extracts from it, in order
Block(anns) == [ok |-> TRUE, anns |-> anns]

\* The blocks consensus may deliver
Blocks == {Block(<<>>), Block(<<"B", "C">>), BadBlock}

RECURSIVE SeqsUpTo(_, _)
SeqsUpTo(S, n) ==
    IF n = 0 THEN {<<>>}
    ELSE LET shorter == SeqsUpTo(S, n - 1)
         IN  shorter \cup {Append(s, x) : s \in {t \in shorter : Len(t) = n - 1}, x \in S}

\* The (rewoundBlocks, appliedBlocks) arguments of one Update call
UpdateArgs ==
    {p \in SeqsUpTo(Blocks, MaxBlocks) \X SeqsUpTo(Blocks, MaxBlocks) :
        Len(p[1]) + Len(p[2]) <= MaxBlocks}

(***************************************************************************)
(* The weighted selection tree (hostNode).                                 *)
(***************************************************************************)
createNode(parent, a) ==
    [parent |-> parent, left |-> Nil, right |-> Nil,
     weight |-> entryWeight(a), addr |-> a]

\* First position with a missing child, scanning depth-first, left to right.
RECURSIVE FindSlot(_, _)
FindSlot(h, n) ==
    IF h[n].left = Nil \/ h[n].right = Nil THEN n ELSE FindSlot(h, h[n].left)

\* Add d (possibly negative) to the aggregate of n and of every ancestor of n,
\* stopping after the node `top` (Nil: walk to the root).
RECURSIVE AddUp(_, _, _, _)
AddUp(h, n, d, top) ==
    IF n = Nil THEN h
    ELSE LET h1 == [h EXCEPT ![n].weight = @ + d]
         IN  IF n = top THEN h1 ELSE AddUp(h1, h[n].parent, d, top)

\* hostNode.insert: the heap after inserting an entry for address a below root;
\* the new node is Len(h) + 1.
nodeInsert(h, root, a) ==
    LET s  == FindSlot(h, root)
        new == Len(h) + 1
        h1 == Append(h, createNode(s, a))
        h2 == IF h1[s].left = Nil THEN [h1 EXCEPT ![s].left = new]
                                  ELSE [h1 EXCEPT ![s].right = new]
    IN  AddUp(h2, s, entryWeight(a), Nil)

\* hostNode.remove: detach n, promote a child into its slot, reattach the other
\* child beneath the promoted one, subtract n's own weight from every ancestor.
nodeRemove(h, n) ==
    LET p     == h[n].parent
        l     == h[n].left
        r     == h[n].right
        prom  == IF l # Nil THEN l ELSE r
        other == IF l # Nil THEN r ELSE Nil
        \* the promoted child takes n's place
        h1 == IF prom = Nil THEN h ELSE [h EXCEPT ![prom].parent = p]
        \* the remaining child goes beneath it
        s  == IF other = Nil THEN Nil ELSE FindSlot(h1, prom)
        h2 == IF other = Nil THEN h1
              ELSE LET a1 == [h1 EXCEPT ![other].parent = s]
                       a2 == IF a1[s].left = Nil THEN [a1 EXCEPT ![s].left = other]
                                                 ELSE [a1 EXCEPT ![s].right = other]
                   IN  AddUp(a2, s, h[other].weight, prom)
        \* the parent's slot now holds the promoted child
        h3 == IF p = Nil THEN h2
              ELSE IF h2[p].left = n THEN [h2 EXCEPT ![p].left = prom]
                                     ELSE [h2 EXCEPT ![p].right = prom]
        h4 == AddUp(h3, p, 0 - entryWeight(h[n].addr), Nil)
    IN  [h4 EXCEPT ![n].parent = Nil, ![n].left = Nil, ![n].right = Nil]

ErrTooHeavy == "ErrTooHeavy"

\* hostNode.entryAtWeight: the address of the entry whose weight slice holds w.
RECURSIVE entryAtWeight(_, _, _)
entryAtWeight(h, n, w) ==
    IF n = Nil THEN ErrTooHeavy
    ELSE LET own == entryWeight(h[n].addr)
             lw  == IF h[n].left = Nil THEN 0 ELSE h[h[n].left].weight
             rw  == IF h[n].right = Nil THEN 0 ELSE h[h[n].right].weight
         IN  IF w < own THEN h[n].addr
             ELSE IF w - own < lw THEN entryAtWeight(h, h[n].left, w - own)
             ELSE IF w - own - lw < rw THEN entryAtWeight(h, h[n].right, w - own - lw)
             ELSE ErrTooHeavy


(***************************************************************************)
(* The directory: HostDB                                                   *)
(***************************************************************************)
ErrNil == "nil"
ErrDuplicate == "entry of given id already exists in host db"
ErrNotFound == "address not found in host database"
ErrNoHosts == "no hosts found"
ErrExtract == "findHostAnnouncements failed"
Panic == "panic"
Running == "running"

NoSnapshot == [active |-> {}, inactive |-> {}, weight |-> 0]
NoHist == [phase |-> "none", S |-> NoSnapshot, B |-> <<>>]
IdleUpdate == [pc |-> "idle", rew |-> <<>>, app |-> <<>>, arg |-> "-", err |-> ErrNil]

\* the key set of activeHosts
ActiveKeys == {a \in Addr : activeHosts[a] # Nil}

\* A directory with no active host that retains the entries `retained`
Directory(retained) ==
    /\ heap = <<>>
    /\ hostTree = Nil
    /\ activeHosts = [a \in Addr |-> Nil]
    /\ inactiveHosts = retained
    /\ recentBlock = "genesis"
    /\ mu = "none"
    /\ upd = IdleUpdate
    /\ res = [op |-> "New", arg |-> "-", val |-> ErrNil]
    /\ hist = NoHist

\* New: the empty directory
New == Directory({})

\* An unrecovered panic ends the process: no call runs after it.
Alive == res.val # Panic

\* hdb.insert: its error result
insertErr(a) == IF activeHosts[a] # Nil THEN ErrDuplicate ELSE ErrNil

\* insert without the check of lines 51-54: an existing key is overwritten
insertNoDuplicateCheck(a) ==
    IF hostTree = Nil
    THEN /\ heap' = Append(heap, createNode(Nil, a))
         /\ hostTree' = Len(heap) + 1
         /\ activeHosts' = [activeHosts EXCEPT ![a] = Len(heap) + 1]
    ELSE /\ heap' = nodeInsert(heap, hostTree, a)
         /\ activeHosts' = [activeHosts EXCEPT ![a] = Len(heap) + 1]
         /\ UNCHANGED hostTree

\* hdb.insert: its effect on the tree and on activeHosts
insert(a) ==
    IF activeHosts[a] # Nil
    THEN UNCHANGED <<heap, hostTree, activeHosts>>
    ELSE IF hostTree = Nil
    THEN /\ heap' = Append(heap, createNode(Nil, a))
         /\ hostTree' = Len(heap) + 1
         /\ activeHosts' = [activeHosts EXCEPT ![a] = Len(heap) + 1]
    ELSE /\ heap' = nodeInsert(heap, hostTree, a)
         /\ activeHosts' = [activeHosts EXCEPT ![a] = Len(heap) + 1]
         /\ UNCHANGED hostTree

\* hdb.Insert: Lock, insert, Unlock
Insert(a) ==
    /\ Alive
    /\ mu = "none"
    /\ activeHosts[a] = Nil => Len(heap) < MaxNodes
    /\ insert(a)
    /\ res' = [op |-> "Insert", arg |-> a, val |-> insertErr(a)]
    /\ hist' = NoHist
    /\ UNCHANGED <<inactiveHosts, recentBlock, mu, upd>>
    /\ UNCHANGED hostvars

\* hdb.Remove, lines 90-108: its error result
removeErr(a) ==
    IF activeHosts[a] = Nil /\ a \notin inactiveHosts THEN ErrNotFound ELSE ErrNil

\* Remove without the delete of line 97: the inactive entry stays
removeKeepsInactive(a) ==
    IF activeHosts[a] # Nil
    THEN /\ activeHosts' = [activeHosts EXCEPT ![a] = Nil]
         /\ heap' = nodeRemove(heap, activeHosts[a])
         /\ UNCHANGED <<hostTree, inactiveHosts>>
    ELSE UNCHANGED <<heap, hostTree, activeHosts, inactiveHosts>>

\* Remove retaining the removed entry in inactiveHosts without the delete of
\* line 105
removeRetainsActive(a) ==
    IF activeHosts[a] # Nil
    THEN /\ inactiveHosts' = inactiveHosts \cup {a}
         /\ heap' = nodeRemove(heap, activeHosts[a])
         /\ UNCHANGED <<hostTree, activeHosts>>
    ELSE IF a \in inactiveHosts
    THEN /\ inactiveHosts' = inactiveHosts \ {a}
         /\ UNCHANGED <<heap, hostTree, activeHosts>>
    ELSE UNCHANGED <<heap, hostTree, activeHosts, inactiveHosts>>

\* hdb.Remove, lines 90-108: its effect on the maps and on the tree
removeBody(a) ==
    IF activeHosts[a] # Nil
    THEN /\ activeHosts' = [activeHosts EXCEPT ![a] = Nil]
         /\ heap' = nodeRemove(heap, activeHosts[a])
         /\ UNCHANGED <<hostTree, inactiveHosts>>
    ELSE IF a \in inactiveHosts
    THEN /\ inactiveHosts' = inactiveHosts \ {a}
         /\ UNCHANGED <<heap, hostTree, activeHosts>>
    ELSE UNCHANGED <<heap, hostTree, activeHosts, inactiveHosts>>

\* hdb.mu.Lock() at the head of Remove: the lock is not reentrant, the caller
\* proceeds only when no call holds it.
RemoveLock == mu = "none"

\* hdb.Remove called by a client (caller "ext", op Remove or FlagHost) or by the
\* Update call in progress (caller "upd", waiting at its line 127).
Remove(caller, op, a) ==
    /\ Alive
    /\ RemoveLock
    /\ removeBody(a)
    /\ mu' = "none"
    /\ recentBlock' = recentBlock
    /\ IF caller = "ext"
       THEN /\ upd.pc = "idle"
            /\ res' = [op |-> op, arg |-> a, val |-> removeErr(a)]
            /\ hist' = NoHist
            /\ upd' = upd
       ELSE /\ upd.pc = "remove" /\ upd.arg = a /\ op = "Remove"
            /\ upd' = [upd EXCEPT !.pc = IF removeErr(a) = ErrNil THEN "rewind" ELSE "return",
                                  !.err = removeErr(a)]
            /\ UNCHANGED <<res, hist>>
    /\ UNCHANGED hostvars

\* hdb.FlagHost: an alias of Remove
FlagHost(a) == Remove("ext", "FlagHost", a)

\* Snapshot of the directory: active addresses, inactive addresses, root weight
Snapshot ==
    [active |-> ActiveKeys, inactive |-> inactiveHosts,
     weight |-> IF hostTree = Nil THEN 0 ELSE heap[hostTree].weight]

RECURSIVE Flatten(_)
Flatten(bs) ==
    IF bs = <<>> THEN <<>>
    ELSE Head(bs).anns \o Flatten(Tail(bs))

Reverse(s) == [i \in 1..Len(s) |-> s[Len(s) + 1 - i]]

\* a batch of blocks all of whose announcements are of fresh, distinct addresses
FreshBatch(bs) ==
    /\ \A i \in 1..Len(bs) : bs[i].ok
    /\ LET f == Flatten(bs)
       IN  /\ \A i \in 1..Len(f) : activeHosts[f[i]] = Nil
           /\ \A i, j \in 1..Len(f) : i # j => f[i] # f[j]

\* Update without the Lock of line 113: the batch runs with the lock free
UpdateBeginNoLock(rew, app) ==
    /\ Alive
    /\ mu = "none"
    /\ upd.pc = "idle"
    /\ Len(heap) + Len(Flatten(app)) <= MaxNodes
    /\ mu' = "none"
    /\ upd' = [pc |-> "rewind", rew |-> rew, app |-> app, arg |-> "-", err |-> ErrNil]
    /\ res' = [op |-> "Update", arg |-> "-", val |-> Running]
    /\ hist' = IF rew = <<>> /\ FreshBatch(app)
               THEN [phase |-> "applying", S |-> Snapshot, B |-> app]
               ELSE IF hist.phase = "applied" /\ app = <<>> /\ rew \in {hist.B, Reverse(hist.B)}
               THEN [hist EXCEPT !.phase = "rewinding"]
               ELSE NoHist
    /\ UNCHANGED <<heap, hostTree, activeHosts, inactiveHosts, recentBlock>>
    /\ UNCHANGED hostvars

\* hdb.Update, lines 113-114: Lock
UpdateBegin(rew, app) ==
    /\ Alive
    /\ mu = "none"
    /\ upd.pc = "idle"
    /\ Len(heap) + Len(Flatten(app)) <= MaxNodes
    /\ mu' = "upd"
    /\ upd' = [pc |-> "rewind", rew |-> rew, app |-> app, arg |-> "-", err |-> ErrNil]
    /\ res' = [op |-> "Update", arg |-> "-", val |-> Running]
    /\ hist' = IF rew = <<>> /\ FreshBatch(app)
               THEN [phase |-> "applying", S |-> Snapshot, B |-> app]
               ELSE IF hist.phase = "applied" /\ app = <<>> /\ rew \in {hist.B, Reverse(hist.B)}
               THEN [hist EXCEPT !.phase = "rewinding"]
               ELSE NoHist
    /\ UNCHANGED <<heap, hostTree, activeHosts, inactiveHosts, recentBlock>>
    /\ UNCHANGED hostvars

\* hdb.Update, lines 119-132: the loop over the rewound blocks, one step per
\* block header, extraction or announcement
UpdateRewind ==
    /\ upd.pc = "rewind"
    /\ upd' = IF upd.rew = <<>> THEN [upd EXCEPT !.pc = "apply"]
              ELSE IF ~Head(upd.rew).ok
              THEN [upd EXCEPT !.pc = "return", !.err = ErrExtract]
              ELSE IF Head(upd.rew).anns = <<>> THEN [upd EXCEPT !.rew = Tail(@)]
              ELSE [upd EXCEPT !.pc = "remove", !.arg = Head(Head(upd.rew).anns),
                               !.rew = <<Block(Tail(Head(@).anns))>> \o Tail(@)]
    /\ UNCHANGED <<heap, hostTree, activeHosts, inactiveHosts, recentBlock, mu, res, hist>>
    /\ UNCHANGED hostvars

\* hdb.Update, lines 135-148: the loop over the applied blocks
UpdateApply ==
    /\ upd.pc = "apply"
    /\ IF upd.app = <<>>
       THEN /\ upd' = [upd EXCEPT !.pc = "return", !.err = ErrNil]
            /\ UNCHANGED <<heap, hostTree, activeHosts>>
       ELSE IF ~Head(upd.app).ok
       THEN /\ upd' = [upd EXCEPT !.pc = "return", !.err = ErrExtract]
            /\ UNCHANGED <<heap, hostTree, activeHosts>>
       ELSE IF Head(upd.app).anns = <<>>
       THEN /\ upd' = [upd EXCEPT !.app = Tail(@)]
            /\ UNCHANGED <<heap, hostTree, activeHosts>>
       ELSE LET a == Head(Head(upd.app).anns)
            IN  /\ insert(a)
                /\ upd' = IF insertErr(a) = ErrNil
                          THEN [upd EXCEPT !.app = <<Block(Tail(Head(@).anns))>> \o Tail(@)]
                          ELSE [upd EXCEPT !.pc = "return", !.err = insertErr(a)]
    /\ UNCHANGED <<inactiveHosts, recentBlock, mu, res, hist>>
    /\ UNCHANGED hostvars

\* hdb.Update: return, running the deferred Unlock
UpdateReturn ==
    /\ upd.pc = "return"
    /\ mu' = "none"
    /\ upd' = IdleUpdate
    /\ res' = [op |-> "Update", arg |-> "-", val |-> upd.err]
    /\ hist' = IF hist.phase = "applying" /\ upd.err = ErrNil
               THEN [hist EXCEPT !.phase = "applied"]
               ELSE IF hist.phase = "rewinding"
               THEN [hist EXCEPT !.phase = "rewound"]
               ELSE NoHist
    /\ UNCHANGED <<heap, hostTree, activeHosts, inactiveHosts, recentBlock>>
    /\ UNCHANGED hostvars

\* crypto/rand.Int(rand.Reader, max) panics when max <= 0
randIntPanics(max) == max <= 0

\* hdb.RandomHost: RLock, sample, RUnlock
RandomHost ==
    /\ Alive
    /\ mu = "none"
    /\ IF ActiveKeys = {}
       THEN res' = [op |-> "RandomHost", arg |-> "-", val |-> ErrNoHosts]
       ELSE IF randIntPanics(heap[hostTree].weight)
       THEN res' = [op |-> "RandomHost", arg |-> "-", val |-> Panic]
       ELSE \E randWeight \in 0..(heap[hostTree].weight - 1) :
               res' = [op |-> "RandomHost", arg |-> "-",
                       val |-> entryAtWeight(heap, hostTree, randWeight)]
    /\ UNCHANGED <<heap, hostTree, activeHosts, inactiveHosts, recentBlock, mu, upd, hist>>
    /\ UNCHANGED hostvars

NextDB ==
    \/ \E a \in Addr : Insert(a)
    \/ \E a \in Addr, caller \in {"ext", "upd"} : Remove(caller, "Remove", a)
    \/ \E a \in Addr : FlagHost(a)
    \/ \E p \in UpdateArgs : UpdateBegin(p[1], p[2])
    \/ UpdateRewind
    \/ UpdateApply
    \/ UpdateReturn
    \/ RandomHost

(***************************************************************************)
(* Part II: the host's RPC front-end, network.go (operations)              *)
(***************************************************************************)
Conns == 1..MaxConns

\* The six RPC specifiers of the switch, the deprecated settings specifier,
\* and "Unknown": any other well-formed 16-byte specifier.
KnownRPC == {"Download", "RenewContract", "FormContract", "ReviseContract",
             "RecentRevision", "Settings"}
Specifiers == KnownRPC \cup {"SettingsDeprecated", "Unknown"}

NoId == "none"
\* encoding.ReadObject failed: nothing well-formed was read
Malformed == "malformed"

ZeroCounters ==
    [Download |-> 0, RenewContract |-> 0, FormContract |-> 0, ReviseContract |-> 0,
     RecentRevision |-> 0, Settings |-> 0, Unrecognized |-> 0, Errored |-> 0]

\* atomic.AddUint64(&counter, 1)
atomicAdd(c, field) == [c EXCEPT ![field] = @ + 1]

\* line 163: errors are printed while the loaded counter is below 1e3
VerboseLimit == 1000

\* What the handler of a connection has done: tg.Add returned nil, SetDeadline
\* returned nil, the value the errored counter took at the handler's increment
\* (0: no increment), the logger call made for the handler's error.
NoHandling == [added |-> FALSE, deadline |-> FALSE, k |-> 0, log |-> "none"]

\* The host after initNetworking has returned, with the call counters at cnt:
\* listener open, its two goroutines spawned, no connection accepted that has
\* not been fully handled.
HostAfter(cnt) ==
    /\ tg = [stopped |-> FALSE, wg |-> 0, perm |-> 0]
    /\ stop = "idle"
    /\ listenerOpen = TRUE
    /\ lpc = "addperm"
    /\ ipc = "add"
    /\ hpc = "none"
    /\ cpc = [c \in Conns |-> "none"]
    /\ kpc = [c \in Conns |-> "none"]
    /\ id = [c \in Conns |-> NoId]
    /\ connCloseChan = [c \in Conns |-> FALSE]
    /\ closes = [c \in Conns |-> 0]
    /\ counters = cnt
    /\ handled = [c \in Conns |-> NoHandling]

\* The host right after initNetworking has returned
HostInit == HostAfter(ZeroCounters)

(***************************************************************************)
(* The thread group h.tg                                                   *)
(***************************************************************************)
\* tg.Add / tg.AddPermanent fail once the group is stopping
tgAddFails == tg.stopped

\* tg.Stop(): close the stop channel and run the BeforeStop functions (lines
\* 52-57 close the listener) ...
StopSignal ==
    /\ stop = "idle"
    /\ tg' = [tg EXCEPT !.stopped = TRUE]
    /\ listenerOpen' = FALSE
    /\ stop' = "waiting"
    /\ UNCHANGED <<lpc, ipc, hpc, cpc, kpc, id, connCloseChan, closes, counters, handled>>
    /\ UNCHANGED dbvars

\* ... then wait for every registered task, transient or permanent
StopReturn ==
    /\ stop = "waiting"
    /\ tg.wg = 0 /\ tg.perm = 0
    /\ stop' = "returned"
    /\ UNCHANGED <<tg, listenerOpen, lpc, ipc, hpc, cpc, kpc, id, connCloseChan,
                   closes, counters, handled>>
    /\ UNCHANGED dbvars

(***************************************************************************)
(* initNetworking's goroutine and threadedUpdateHostname                    *)
(***************************************************************************)
\* lines 73-85
InitGoroutine ==
    /\ \/ /\ ipc = "add"
          /\ IF tgAddFails
             THEN ipc' = "exit" /\ tg' = tg
             ELSE ipc' = "forward" /\ tg' = [tg EXCEPT !.wg = @ + 1]
          /\ hpc' = hpc
       \/ /\ ipc = "forward"      \* managedForwardPort, then go threadedUpdateHostname
          /\ ipc' = "done"
          /\ hpc' = "addperm"
          /\ tg' = tg
       \/ /\ ipc = "done"         \* deferred h.tg.Done()
          /\ ipc' = "exit"
          /\ tg' = [tg EXCEPT !.wg = @ - 1]
          /\ hpc' = hpc
    /\ UNCHANGED <<stop, listenerOpen, lpc, cpc, kpc, id, connCloseChan, closes, counters,
                   handled>>
    /\ UNCHANGED dbvars

\* lines 20-41
threadedUpdateHostname ==
    /\ \/ /\ hpc = "addperm"
          /\ IF tgAddFails
             THEN hpc' = "exit" /\ tg' = tg
             ELSE hpc' = "learn" /\ tg' = [tg EXCEPT !.perm = @ + 1]
       \/ /\ hpc = "learn"        \* h.managedLearnHostname()
          /\ hpc' = "select"
          /\ tg' = tg
       \/ /\ hpc = "select"       \* case <-h.tg.StopChan()
          /\ tg.stopped
          /\ hpc' = "doneperm"
          /\ tg' = tg
       \/ /\ hpc = "select"       \* case <-time.After(30 minutes)
          /\ hpc' = "learn"
          /\ tg' = tg
       \/ /\ hpc = "doneperm"     \* deferred h.tg.DonePermanent()
          /\ hpc' = "exit"
          /\ tg' = [tg EXCEPT !.perm = @ - 1]
    /\ UNCHANGED <<stop, listenerOpen, lpc, ipc, cpc, kpc, id, connCloseChan, closes,
                   counters, handled>>
    /\ UNCHANGED dbvars

(***************************************************************************)
(* threadedListen, lines 172-190                                           *)
(***************************************************************************)
\* the next connection a peer opens
NextConn == CHOOSE c \in Conns : cpc[c] = "none" /\ \A d \in Conns : d < c => cpc[d] # "none"

\* an accept loop that calls Accept again after it has failed
threadedListenRetries ==
    /\ \/ /\ lpc = "addperm"
          /\ IF tgAddFails
             THEN lpc' = "exit" /\ tg' = tg
             ELSE lpc' = "accept" /\ tg' = [tg EXCEPT !.perm = @ + 1]
          /\ cpc' = cpc
       \/ /\ lpc = "accept"
          /\ listenerOpen
          /\ \E c \in Conns : cpc[c] = "none"
          /\ cpc' = [cpc EXCEPT ![NextConn] = "start"]
          /\ UNCHANGED <<lpc, tg>>
       \/ /\ lpc = "accept"
          /\ ~listenerOpen
          /\ UNCHANGED <<lpc, cpc, tg>>
       \/ /\ lpc = "doneperm"
          /\ lpc' = "exit"
          /\ tg' = [tg EXCEPT !.perm = @ - 1]
          /\ cpc' = cpc
    /\ UNCHANGED <<stop, listenerOpen, ipc, hpc, kpc, id, connCloseChan, closes, counters,
                   handled>>
    /\ UNCHANGED dbvars

threadedListen ==
    /\ \/ /\ lpc = "addperm"
          /\ IF tgAddFails
             THEN lpc' = "exit" /\ tg' = tg
             ELSE lpc' = "accept" /\ tg' = [tg EXCEPT !.perm = @ + 1]
          /\ cpc' = cpc
       \/ /\ lpc = "accept"       \* Accept returns a connection: go threadedHandleConn
          /\ listenerOpen
          /\ \E c \in Conns : cpc[c] = "none"
          /\ cpc' = [cpc EXCEPT ![NextConn] = "start"]
          /\ UNCHANGED <<lpc, tg>>
       \/ /\ lpc = "accept"       \* Accept fails: the listener was closed
          /\ ~listenerOpen
          /\ lpc' = "doneperm"
          /\ UNCHANGED <<cpc, tg>>
       \/ /\ lpc = "doneperm"     \* deferred h.tg.DonePermanent()
          /\ lpc' = "exit"
          /\ tg' = [tg EXCEPT !.perm = @ - 1]
          /\ cpc' = cpc
    /\ UNCHANGED <<stop, listenerOpen, ipc, hpc, kpc, id, connCloseChan, closes, counters,
                   handled>>
    /\ UNCHANGED dbvars

(***************************************************************************)
(* threadedHandleConn, lines 94-169                                        *)
(***************************************************************************)
\* lines 97-105: make connCloseChan, defer its close, spawn the closer
HandleStart(c) ==
    /\ cpc[c] = "start"
    /\ cpc' = [cpc EXCEPT ![c] = "add"]
    /\ kpc' = [kpc EXCEPT ![c] = "select"]
    /\ UNCHANGED <<tg, id, counters, connCloseChan, handled>>

\* a handler that goes on although h.tg.Add() failed (no return at line 109)
HandleAddIgnoresError(c) ==
    /\ cpc[c] = "add"
    /\ IF tgAddFails
       THEN /\ cpc' = [cpc EXCEPT ![c] = "deadline"]
            /\ UNCHANGED <<tg, handled>>
       ELSE /\ cpc' = [cpc EXCEPT ![c] = "deadline"]
            /\ tg' = [tg EXCEPT !.wg = @ + 1]
            /\ handled' = [handled EXCEPT ![c].added = TRUE]
    /\ UNCHANGED <<kpc, id, counters, connCloseChan>>

\* lines 107-111: h.tg.Add()
HandleAdd(c) ==
    /\ cpc[c] = "add"
    /\ IF tgAddFails
       THEN /\ cpc' = [cpc EXCEPT ![c] = "closechan"]
            /\ UNCHANGED <<tg, handled>>
       ELSE /\ cpc' = [cpc EXCEPT ![c] = "deadline"]
            /\ tg' = [tg EXCEPT !.wg = @ + 1]
            /\ handled' = [handled EXCEPT ![c].added = TRUE]
    /\ UNCHANGED <<kpc, id, counters, connCloseChan>>

\* lines 115-119: conn.SetDeadline; it can fail, and does on a closed connection
HandleDeadline(c) ==
    /\ cpc[c] = "deadline"
    /\ \/ /\ closes[c] = 0
          /\ cpc' = [cpc EXCEPT ![c] = "read"]
          /\ handled' = [handled EXCEPT ![c].deadline = TRUE]
       \/ /\ cpc' = [cpc EXCEPT ![c] = "done"]
          /\ handled' = handled
    /\ UNCHANGED <<tg, kpc, id, counters, connCloseChan>>

\* a failed read that is also counted as an errored call
HandleReadCountsErrored(c) ==
    /\ cpc[c] = "read"
    /\ \/ /\ closes[c] = 0
          /\ \E s \in Specifiers : id' = [id EXCEPT ![c] = s]
          /\ cpc' = [cpc EXCEPT ![c] = "switch"]
          /\ counters' = counters
       \/ /\ id' = [id EXCEPT ![c] = Malformed]
          /\ counters' = atomicAdd(atomicAdd(counters, "Unrecognized"), "Errored")
          /\ cpc' = [cpc EXCEPT ![c] = "done"]
    /\ UNCHANGED <<tg, kpc, connCloseChan, handled>>

\* lines 122-127: encoding.ReadObject(conn, &id, 16)
HandleRead(c) ==
    /\ cpc[c] = "read"
    /\ \/ /\ closes[c] = 0
          /\ \E s \in Specifiers : id' = [id EXCEPT ![c] = s]
          /\ cpc' = [cpc EXCEPT ![c] = "switch"]
          /\ counters' = counters
       \/ /\ id' = [id EXCEPT ![c] = Malformed]
          /\ counters' = atomicAdd(counters, "Unrecognized")
          /\ cpc' = [cpc EXCEPT ![c] = "done"]
    /\ UNCHANGED <<tg, kpc, connCloseChan, handled>>

\* the switch with a default case that also counts an errored call
HandleSwitchDefaultErrored(c) ==
    /\ cpc[c] = "switch"
    /\ IF id[c] \in KnownRPC
       THEN /\ counters' = atomicAdd(counters, id[c])
            /\ cpc' = [cpc EXCEPT ![c] = "rpc"]
       ELSE IF id[c] = "SettingsDeprecated"
       THEN /\ counters' = counters
            /\ cpc' = [cpc EXCEPT ![c] = "done"]
       ELSE /\ counters' = atomicAdd(atomicAdd(counters, "Unrecognized"), "Errored")
            /\ cpc' = [cpc EXCEPT ![c] = "done"]
    /\ UNCHANGED <<tg, kpc, id, connCloseChan, handled>>

\* lines 129-153: the switch on the specifier, up to the call of the RPC handler
HandleSwitch(c) ==
    /\ cpc[c] = "switch"
    /\ IF id[c] \in KnownRPC
       THEN /\ counters' = atomicAdd(counters, id[c])
            /\ cpc' = [cpc EXCEPT ![c] = "rpc"]
       ELSE IF id[c] = "SettingsDeprecated"
       THEN /\ counters' = counters
            /\ cpc' = [cpc EXCEPT ![c] = "done"]
       ELSE /\ counters' = atomicAdd(counters, "Unrecognized")
            /\ cpc' = [cpc EXCEPT ![c] = "done"]
    /\ UNCHANGED <<tg, kpc, id, connCloseChan, handled>>

\* the RPC handler (h.managedRPC...) returns, with an error or without
HandleRPC(c) ==
    /\ cpc[c] = "rpc"
    /\ \/ cpc' = [cpc EXCEPT ![c] = "done"]
       \/ cpc' = [cpc EXCEPT ![c] = "errinc"]
    /\ UNCHANGED <<tg, kpc, id, counters, connCloseChan, handled>>

\* line 155: atomic.AddUint64(&h.atomicErroredCalls, 1)
HandleErrInc(c) ==
    /\ cpc[c] = "errinc"
    /\ counters' = atomicAdd(counters, "Errored")
    /\ handled' = [handled EXCEPT ![c].k = counters'.Errored]
    /\ cpc' = [cpc EXCEPT ![c] = "errlog"]
    /\ UNCHANGED <<tg, kpc, id, connCloseChan>>

\* lines 162-167: load the counter, then h.log.Printf below the limit and
\* h.log.Debugf from the limit on
HandleErrLog(c) ==
    /\ cpc[c] = "errlog"
    /\ LET erroredCalls == counters.Errored
       IN  handled' = [handled EXCEPT
                         ![c].log = IF erroredCalls < VerboseLimit THEN "Printf" ELSE "Debugf"]
    /\ cpc' = [cpc EXCEPT ![c] = "done"]
    /\ UNCHANGED <<tg, kpc, id, counters, connCloseChan>>

\* deferred h.tg.Done() (line 111)
HandleDone(c) ==
    /\ cpc[c] = "done"
    /\ tg' = [tg EXCEPT !.wg = @ - 1]
    /\ cpc' = [cpc EXCEPT ![c] = "closechan"]
    /\ UNCHANGED <<kpc, id, counters, connCloseChan, handled>>

\* deferred close(connCloseChan) (line 98); the function has returned
HandleCloseChan(c) ==
    /\ cpc[c] = "closechan"
    /\ connCloseChan' = [connCloseChan EXCEPT ![c] = TRUE]
    /\ cpc' = [cpc EXCEPT ![c] = "exit"]
    /\ UNCHANGED <<tg, kpc, id, counters, handled>>

threadedHandleConn(c) ==
    /\ \/ HandleStart(c)
       \/ HandleAdd(c)
       \/ HandleDeadline(c)
       \/ HandleRead(c)
       \/ HandleSwitch(c)
       \/ HandleRPC(c)
       \/ HandleErrInc(c)
       \/ HandleErrLog(c)
       \/ HandleDone(c)
       \/ HandleCloseChan(c)
    /\ UNCHANGED <<stop, listenerOpen, lpc, ipc, hpc, closes>>
    /\ UNCHANGED dbvars

\* a closer that waits for the stop channel alone (no case <-connCloseChan)
connCloserStopOnly(c) ==
    /\ kpc[c] = "select"
    /\ tg.stopped
    /\ kpc' = [kpc EXCEPT ![c] = "exit"]
    /\ closes' = [closes EXCEPT ![c] = @ + 1]
    /\ UNCHANGED <<tg, stop, listenerOpen, lpc, ipc, hpc, cpc, id, connCloseChan, counters,
                   handled>>
    /\ UNCHANGED dbvars

\* lines 99-105: the closer goroutine: once either channel is closed the select
\* returns and conn.Close() is called
connCloser(c) ==
    /\ kpc[c] = "select"
    /\ tg.stopped \/ connCloseChan[c]
    /\ kpc' = [kpc EXCEPT ![c] = "exit"]
    /\ closes' = [closes EXCEPT ![c] = @ + 1]
    /\ UNCHANGED <<tg, stop, listenerOpen, lpc, ipc, hpc, cpc, id, connCloseChan, counters,
                   handled>>
    /\ UNCHANGED dbvars

NextHost ==
    \/ StopSignal
    \/ StopReturn
    \/ InitGoroutine
    \/ threadedUpdateHostname
    \/ threadedListen
    \/ \E c \in Conns : threadedHandleConn(c)
    \/ \E c \in Conns : connCloser(c)

(***************************************************************************)
(* Specifications                                                          *)
(***************************************************************************)
Init == New /\ HostInit

\* the directory, driven by its callers
Spec == Init /\ [][NextDB]_vars

\* the RPC front-end
SpecHost == Init /\ [][NextHost]_vars

\* the connection-handling part of the front-end: stop, accept loop, handlers
\* and closers
NextConns ==
    \/ StopSignal
    \/ StopReturn
    \/ threadedListen
    \/ \E c \in Conns : threadedHandleConn(c)
    \/ \E c \in Conns : connCloser(c)

SpecConns == Init /\ [][NextConns]_vars

\* ... with every goroutine scheduled fairly
FairConns ==
    /\ SpecConns
    /\ \A c \in Conns : WF_vars(threadedHandleConn(c)) /\ WF_vars(connCloser(c))

\* ... and the accept loop scheduled fairly too: a peer waiting to connect is
\* accepted, a failed Accept is acted on
FairListen == FairConns /\ WF_vars(threadedListen)

\* the directory with the goroutine of the Update call in progress scheduled
\* fairly: a step it can take (a loop iteration, the Remove it calls once the
\* lock is free, its return) is eventually taken
FairDB ==
    /\ Spec
    /\ WF_vars(UpdateRewind) /\ WF_vars(UpdateApply) /\ WF_vars(UpdateReturn)
    /\ WF_vars(\E a \in Addr : Remove("upd", "Remove", a))

\* The front-end after earlier connections, all fully handled, have left n
\* failed Download calls on the counters, n around the limit of line 163.
InitLogged ==
    /\ New
    /\ \E n \in (VerboseLimit - MaxConns - 1)..VerboseLimit :
          HostAfter([ZeroCounters EXCEPT !.Download = n, !.Errored = n])

SpecLogged == InitLogged /\ [][NextConns]_vars

\* The directory when it retains inactive entries. hostdb.go only ever deletes
\* from inactiveHosts; this specification supplies retained entries as input so
\* that lines 95-98 of Remove are exercised.
InitRetained == Directory({"A"}) /\ HostInit

SpecRetained == InitRetained /\ [][NextDB]_vars

(***************************************************************************)
(* Properties                                                              *)
(***************************************************************************)
\* no call is in progress: every call made so far has returned
Quiescent == mu = "none" /\ upd.pc = "idle"

\* The Update in progress waits at Remove's Lock (line 87) for the lock it
\* took itself at line 113: nothing can release it.
UpdateStuck == upd.pc = "remove" /\ mu = "upd"

\* C1: an Update that rewinds exactly the blocks a preceding Update applied
\* (all announcements fresh) returns normally and restores the active
\* addresses, the inactive addresses and the root weight.
C1_UpdateRoundTrip ==
    /\ hist.phase = "rewinding" => ~UpdateStuck
    /\ hist.phase = "rewound" => res.val = ErrNil /\ Snapshot = hist.S

\* the tasks the server has started and that have not finished
RunningTasks ==
    {<<"listen", 0>> : x \in {y \in {0} : lpc # "exit"}}
    \cup {<<"init", 0>> : x \in {y \in {0} : ipc # "exit"}}
    \cup {<<"hostname", 0>> : x \in {y \in {0} : hpc \notin {"none", "exit"}}}
    \cup {<<"handler", c>> : c \in {d \in Conns : cpc[d] \notin {"none", "exit"}}}
    \cup {<<"closer", c>> : c \in {d \in Conns : kpc[d] \notin {"none", "exit"}}}

\* C2: when the stop call returns, no task started by the server is running.
C2_CleanShutdown == stop = "returned" => RunningTasks = {}

Accepted(c) == cpc[c] # "none"

\* C3: on every accepted connection Close is invoked eventually, and never
\* more than once.
C3_CloseExactlyOnce ==
    /\ \A c \in Conns : [](closes[c] <= 1)
    /\ \A c \in Conns : Accepted(c) ~> (closes[c] = 1)

\* C3 witness: the stop signal closed a connection whose RPC handler is running
C3_Witness == \E c \in Conns : cpc[c] = "rpc" /\ closes[c] = 1 /\ tg.stopped

\* the nodes reachable from node n
RECURSIVE Reach(_, _)
Reach(h, n) ==
    IF n = Nil THEN {} ELSE {n} \cup Reach(h, h[n].left) \cup Reach(h, h[n].right)

\* C4 (I1): after every call has returned, the keys of activeHosts are exactly
\* the addresses of the nodes reachable from hostTree, each key maps to the
\* node holding its address, and there are as many keys as reachable nodes.
C4_IndexConsistency ==
    Quiescent =>
        LET nodes == Reach(heap, hostTree)
        IN  /\ ActiveKeys = {heap[n].addr : n \in nodes}
            /\ \A a \in ActiveKeys : activeHosts[a] \in nodes /\ heap[activeHosts[a]].addr = a
            /\ Cardinality(ActiveKeys) = Cardinality(nodes)

RECURSIVE SumOwn(_)
SumOwn(S) ==
    IF S = {} THEN 0 ELSE LET a == CHOOSE x \in S : TRUE IN entryWeight(a) + SumOwn(S \ {a})

\* C5 (I2): after every call has returned, the weight of the node hostTree
\* references is the sum of the own weights of the active entries.
C5_WeightConsistency ==
    Quiescent => (IF hostTree = Nil THEN 0 ELSE heap[hostTree].weight) = SumOwn(ActiveKeys)

\* C6: an Insert of an address that is a key of activeHosts returns the
\* duplicate error and changes neither the tree nor the maps nor recentBlock.
C6_DuplicateInsert ==
    [][\A a \in Addr :
          (res'.op = "Insert" /\ res'.arg = a /\ activeHosts[a] # Nil)
          => /\ res'.val = ErrDuplicate
             /\ UNCHANGED <<heap, hostTree, activeHosts, inactiveHosts, recentBlock>>]_vars

\* C6 witness: an Insert has returned the duplicate error
C6_Witness == res.op = "Insert" /\ res.val = ErrDuplicate /\ activeHosts[res.arg] # Nil

\* C7: Remove and FlagHost of an address in neither map return not-found and
\* change nothing; of an address only in inactiveHosts they delete it there
\* and leave the tree and activeHosts alone.
C7_RemoveAbsent ==
    [][\A a \in Addr :
          (res'.op \in {"Remove", "FlagHost"} /\ res'.arg = a /\ activeHosts[a] = Nil)
          => IF a \in inactiveHosts
             THEN /\ res'.val = ErrNil
                  /\ inactiveHosts' = inactiveHosts \ {a}
                  /\ UNCHANGED <<heap, hostTree, activeHosts>>
             ELSE /\ res'.val = ErrNotFound
                  /\ UNCHANGED <<heap, hostTree, activeHosts, inactiveHosts>>]_vars

\* C7 witness: the retained entry has been deleted from inactiveHosts and a
\* later FlagHost of an address in neither map has returned not-found
C7_Witness ==
    /\ inactiveHosts = {}
    /\ res.op = "FlagHost" /\ res.val = ErrNotFound
    /\ activeHosts[res.arg] = Nil

\* C8: RandomHost fails with the empty-directory error exactly when
\* activeHosts is empty, and otherwise returns an active address.
C8_RandomHost ==
    res.op = "RandomHost"
    => /\ res.val = ErrNoHosts <=> ActiveKeys = {}
       /\ ActiveKeys # {} => res.val \in ActiveKeys

\* C9: a connection that delivers an unknown specifier adds exactly 1 to the
\* unrecognized counter and nothing to any other, runs no RPC handler, and is
\* closed.
C9_UnknownSpecifier ==
    /\ [][\A c \in Conns :
            (id[c] = "Unknown" /\ cpc'[c] # cpc[c])
            => IF cpc[c] = "switch"
               THEN /\ counters' = [counters EXCEPT !.Unrecognized = @ + 1]
                    /\ cpc'[c] = "done"
               ELSE counters' = counters]_vars
    /\ \A c \in Conns : [](id[c] = "Unknown" => cpc[c] \notin {"rpc", "errinc", "errlog"})
    /\ \A c \in Conns : (id[c] = "Unknown") ~> (closes[c] = 1)

\* C9 witness: a connection that delivered an unknown specifier has been
\* handled and closed
C9_Witness ==
    \E c \in Conns :
        /\ id[c] = "Unknown" /\ cpc[c] = "exit" /\ closes[c] = 1
        /\ counters = [ZeroCounters EXCEPT !.Unrecognized = 1]

\* C10 (I3): no address is a key of both activeHosts and inactiveHosts.
C10_Disjoint == ActiveKeys \cap inactiveHosts = {}

\* C10 witness: hosts have been inserted, one has been removed, others remain
C10_Witness == res.op = "Remove" /\ res.val = ErrNil /\ ActiveKeys # {} /\ Quiescent

\* the calls of clients other than Update
ClientOps == {"Insert", "Remove", "FlagHost", "RandomHost"}

\* C11: Update holds the lock from its Lock to its return, and no Insert,
\* Remove, FlagHost or RandomHost call returns (reads or changes the
\* directory) between the two: each is serialized before or after the batch.
C11_UpdateIsolation ==
    /\ [](upd.pc # "idle" => mu = "upd")
    /\ [][(upd.pc # "idle" /\ upd'.pc # "idle") => res' = res]_vars
    /\ [][(res' # res /\ res'.op \in ClientOps) => (upd.pc = "idle" /\ upd'.pc = "idle")]_vars

\* C11 witness: an Update holds the lock with part of its batch applied: it
\* has inserted an entry and has another one left to insert
C11_Witness ==
    /\ upd.pc = "apply" /\ mu = "upd"
    /\ hist.phase = "applying" /\ ActiveKeys # hist.S.active
    /\ Flatten(upd.app) # <<>>

\* the tree and the two maps
Directory3 == <<heap, hostTree, activeHosts, inactiveHosts>>

\* C12: the rewound blocks are processed before the applied ones; an
\* extraction, removal or insertion that fails ends the batch at that point,
\* rolling nothing back, and Update returns that error; in particular at a
\* removal that fails (the address is in neither map) Update goes on to
\* return the error.
C12_UpdateAbort ==
    /\ [](upd.pc = "apply" => upd.rew = <<>>)
    /\ [][(upd.pc \in {"rewind", "remove"} /\ upd'.pc # "idle") => upd'.app = upd.app]_vars
    /\ [][(upd.pc # "idle" /\ upd.err = ErrNil /\ upd'.err # ErrNil)
            => (upd'.pc = "return" /\ UNCHANGED Directory3)]_vars
    /\ [][upd.pc = "return"
            => (res'.op = "Update" /\ res'.val = upd.err /\ UNCHANGED Directory3)]_vars
    /\ []((upd.pc = "remove" /\ removeErr(upd.arg) # ErrNil)
            => ENABLED Remove("upd", "Remove", upd.arg))

\* C13: once every call has returned, hostTree is nil exactly when activeHosts
\* has no key; an insertion into a directory without active hosts makes
\* hostTree a fresh node without parent or children holding the new entry.
C13_RootAbsent ==
    /\ [](Quiescent => (hostTree = Nil <=> ActiveKeys = {}))
    /\ [][(ActiveKeys = {} /\ ActiveKeys' # {})
            => /\ hostTree' = Len(heap) + 1
               /\ \E a \in Addr : ActiveKeys' = {a} /\ heap'[hostTree'] = createNode(Nil, a)]_vars

\* a stage of handling that is not reached when h.tg.Add() failed
AfterAdd == {"deadline", "read", "switch", "rpc", "errinc", "errlog", "done"}

\* C14: a handler whose tg.Add fails returns at once: it sets no deadline,
\* reads nothing, runs no RPC handler, changes no counter; and the connection
\* is closed.
C14_DropWhenStopping ==
    /\ [][\A c \in Conns :
            (cpc[c] = "add" /\ tgAddFails /\ cpc'[c] # cpc[c])
            => (cpc'[c] = "closechan" /\ UNCHANGED <<counters, id, tg, handled>>)]_vars
    /\ \A c \in Conns :
         []((cpc[c] \notin {"none", "start", "add"} /\ ~handled[c].added)
              => /\ cpc[c] \notin AfterAdd
                 /\ ~handled[c].deadline /\ id[c] = NoId /\ handled[c].k = 0)
    /\ \A c \in Conns : (cpc[c] = "add" /\ tgAddFails) ~> (cpc[c] = "exit" /\ closes[c] = 1)

\* C14 witness: a connection accepted while the server was stopping has been
\* dropped and closed, and no counter has moved
C14_Witness ==
    \E c \in Conns :
        /\ cpc[c] = "exit" /\ ~handled[c].added /\ closes[c] = 1
        /\ id[c] = NoId /\ counters = ZeroCounters

CounterNames == KnownRPC \cup {"Unrecognized", "Errored"}

\* the connections whose RPC handler has returned an error that has been counted
ErroredConns == {c \in Conns : cpc[c] = "errlog" \/ handled[c].log # "none"}

\* the connections whose specifier has been looked up in the switch
Switched(c) == id[c] \in Specifiers /\ cpc[c] # "switch"

C16_VerboseFirstThousand ==
    \A c \in Conns :
        handled[c].log # "none" => (handled[c].log = "Printf" <=> handled[c].k <= VerboseLimit)

\* C17: a handler is spawned only by the running accept loop, one per accepted
\* connection; the loop leaves at the first failed Accept and never accepts
\* again; the stop signal closes the listener, after which the loop ends.
C17_AcceptLoop ==
    /\ [][\A c \in Conns :
            (cpc[c] = "none" /\ cpc'[c] # "none")
            => /\ lpc = "accept" /\ lpc' = "accept" /\ listenerOpen
               /\ cpc'[c] = "start"
               /\ \A d \in Conns \ {c} : cpc'[d] = cpc[d]]_vars
    /\ [][(lpc = "accept" /\ lpc' # lpc) => (~listenerOpen /\ lpc' = "doneperm")]_vars
    /\ [][(lpc \in {"doneperm", "exit"}) => (lpc' \in {"doneperm", "exit"})]_vars
    /\ [](tg.stopped => ~listenerOpen)
    /\ tg.stopped ~> (lpc = "exit")

\* C17 witness: the loop accepted a connection, then the stop signal closed
\* the listener and the loop ended on the failed Accept
C17_Witness ==
    /\ lpc = "exit" /\ tg.stopped /\ tg.perm = 0
    /\ \E c \in Conns : cpc[c] # "none"

\* C18: threadedUpdateHostname is started once, by the goroutine of
\* initNetworking after managedForwardPort has returned; it runs no hostname
\* check once the stop signal has been given; started while the server is
\* stopping it ends without any check; waiting in its select after the stop
\* signal it is not held by the timer.
C18_HostnameTask ==
    /\ [][(hpc = "none" /\ hpc' # "none")
            => (ipc = "forward" /\ ipc' = "done" /\ hpc' = "addperm")]_vars
    /\ [][(hpc # "none") => (hpc' # "none")]_vars
    /\ [][(hpc = "addperm" /\ tg.stopped /\ hpc' # hpc) => hpc' = "exit"]_vars
    /\ []((hpc = "select" /\ tg.stopped) => ENABLED (hpc' = "doneperm" /\ threadedUpdateHostname))
    /\ [][(hpc = "learn" /\ hpc' = "select") => ~tg.stopped]_vars

\* C19: a call that has started returns, with the lock released; no call
\* holds the lock once it has returned.
C19_CallsReturn ==
    /\ [](upd.pc = "idle" => mu = "none")
    /\ (res.val = Running) ~> (res.val # Running /\ mu = "none")

\* the error values RandomHost can return
RandomHostErrors == {ErrNoHosts, ErrTooHeavy}

\* C20: with activeHosts not empty, also when every active entry has own
\* weight zero, RandomHost returns an active entry or an error value: it
\* does not panic.
C20_ZeroWeightSampling ==
    (res.op = "RandomHost" /\ ActiveKeys # {})
    => (res.val # Panic /\ res.val \in ActiveKeys \cup RandomHostErrors)

=============================================================================
